---- MODULE Spec2Model ----
(***************************************************************************)
(* The POST /sales endpoint of the grocery REST API (src/app.py): a        *)
(* request body is decoded into an ItemSearchRequest, a database session   *)
(* is provided, the handler concatenates a SQL query from the active       *)
(* filters, the PostgreSQL store parses and evaluates that text, and the   *)
(* fetched tuples are mapped to Item objects.  Several requests may be in  *)
(* flight at once; each await of the handler is a separate step.           *)
(***************************************************************************)
EXTENDS Integers, Sequences, FiniteSets, TLC

(* ---------------------------------------------------------------- values *)

\* Optional[T]: None is the empty tuple, a present value x is <<x>>.
None == <<>>

Some(x) == <<x>>

IsNone(o) == Len(o) = 0

Get(o) == o[1]

\* A str is a tuple of characters where the code looks inside it (category
\* values, interpolated into SQL text) and a tuple of words where PostgreSQL
\* tokenises it (descriptions); the empty tuple is the empty string.
Seq2Set(s) == {s[i] : i \in 1..Len(s)}

\* Python truthiness of an Optional[str]: None and "" are falsy.
Truthy(o) == ~IsNone(o) /\ Len(Get(o)) > 0

Min(a, b) == IF a <= b THEN a ELSE b

(* ------------------------------------------------------------- Category *)

\* class Category(str, Enum): member name |-> value.
CategoryValue ==
  [
    Adult_Beverage |-> <<"A", "d", "u", "l", "t", " ", "B", "e", "v", "e", "r", "a", "g", "e">>,
    Apparel |-> <<"A", "p", "p", "a", "r", "e", "l">>,
    Automotive |-> <<"A", "u", "t", "o", "m", "o", "t", "i", "v", "e">>,
    Baby |-> <<"B", "a", "b", "y">>,
    Bakery |-> <<"B", "a", "k", "e", "r", "y">>,
    Baking_Goods |-> <<"B", "a", "k", "i", "n", "g", " ", "G", "o", "o", "d", "s">>,
    Beauty |-> <<"B", "e", "a", "u", "t", "y">>,
    Bed_Bath |-> <<"B", "e", "d", " ", "&", " ", "B", "a", "t", "h">>,
    Beverages |-> <<"B", "e", "v", "e", "r", "a", "g", "e", "s">>,
    Breakfast |-> <<"B", "r", "e", "a", "k", "f", "a", "s", "t">>,
    Candy |-> <<"C", "a", "n", "d", "y">>,
    Canned_Packaged |-> <<"C", "a", "n", "n", "e", "d", " ", "&", " ", "P", "a", "c", "k", "a", "g", "e", "d">>,
    Cleaning_Products |-> <<"C", "l", "e", "a", "n", "i", "n", "g", " ", "P", "r", "o", "d", "u", "c", "t", "s">>,
    Condiment_Sauces |-> <<"C", "o", "n", "d", "i", "m", "e", "n", "t", " ", "&", " ", "S", "a", "u", "c", "e", "s">>,
    Dairy |-> <<"D", "a", "i", "r", "y">>,
    Deli |-> <<"D", "e", "l", "i">>,
    Easter |-> <<"E", "a", "s", "t", "e", "r">>,
    Electronics |-> <<"E", "l", "e", "c", "t", "r", "o", "n", "i", "c", "s">>,
    Entertainment |-> <<"E", "n", "t", "e", "r", "t", "a", "i", "n", "m", "e", "n", "t">>,
    Floral |-> <<"F", "l", "o", "r", "a", "l">>,
    Frozen |-> <<"F", "r", "o", "z", "e", "n">>,
    Garden_Patio |-> <<"G", "a", "r", "d", "e", "n", " ", "&", " ", "P", "a", "t", "i", "o">>,
    Gift_Cards |-> <<"G", "i", "f", "t", " ", "C", "a", "r", "d", "s">>,
    Hardware |-> <<"H", "a", "r", "d", "w", "a", "r", "e">>,
    Health |-> <<"H", "e", "a", "l", "t", "h">>,
    Holiday_Seasonal_Goods |-> <<"H", "o", "l", "i", "d", "a", "y", " ", "&", " ", "S", "e", "a", "s", "o", "n", "a", "l", " ", "G", "o", "o", "d", "s">>,
    Home_Decor |-> <<"H", "o", "m", "e", " ", "D", "e", "c", "o", "r">>,
    International |-> <<"I", "n", "t", "e", "r", "n", "a", "t", "i", "o", "n", "a", "l">>,
    Kitchen |-> <<"K", "i", "t", "c", "h", "e", "n">>,
    Meat_Seafood |-> <<"M", "e", "a", "t", " ", "&", " ", "S", "e", "a", "f", "o", "o", "d">>,
    Natural_Organic |-> <<"N", "a", "t", "u", "r", "a", "l", " ", "&", " ", "O", "r", "g", "a", "n", "i", "c">>,
    Office_School_Crafts |-> <<"O", "f", "f", "i", "c", "e", ",", " ", "S", "c", "h", "o", "o", "l", ",", " ", "&", " ", "C", "r", "a", "f", "t", "s">>,
    Other |-> <<"O", "t", "h", "e", "r">>,
    Party |-> <<"P", "a", "r", "t", "y">>,
    Pasta_Sauces_Grain |-> <<"P", "a", "s", "t", "a", ",", " ", "S", "a", "u", "c", "e", "s", ",", " ", "G", "r", "a", "i", "n">>,
    Personal_Care |-> <<"P", "e", "r", "s", "o", "n", "a", "l", " ", "C", "a", "r", "e">>,
    Pet_Care |-> <<"P", "e", "t", " ", "C", "a", "r", "e">>,
    Produce |-> <<"P", "r", "o", "d", "u", "c", "e">>,
    Snacks |-> <<"S", "n", "a", "c", "k", "s">>,
    Sporting_Goods |-> <<"S", "p", "o", "r", "t", "i", "n", "g", " ", "G", "o", "o", "d", "s">>,
    Tobacco |-> <<"T", "o", "b", "a", "c", "c", "o">>,
    Travel_Luggage |-> <<"T", "r", "a", "v", "e", "l", " ", "&", " ", "L", "u", "g", "g", "a", "g", "e">>,
    Valentines_Day |-> <<"V", "a", "l", "e", "n", "t", "i", "n", "e", "'", "s", " ", "D", "a", "y">>
  ]

Category == DOMAIN CategoryValue

\* Enum lookup by value, as pydantic validates an Optional[Category] field.
CategoryByValue(v) == {m \in Category : CategoryValue[m] = v}

(* --------------------------------------------------------------- inputs *)

\* Rows a store holds at most (Spec).
MaxRows == 2

\* Requests in flight at once (SpecConc).
NumReq == 2

\* "LIMIT 100" of the query text.
RowLimit == 100

Reqs == 1..NumReq

Bogus == <<"B", "o", "g", "u", "s">>

\* A row of public.items_view; every column is nullable in the store.
RowUniverse ==
  [category : {Some(CategoryValue.Office_School_Crafts),
               Some(CategoryValue.Valentines_Day)},
   description : {Some(<<"the", "milk">>), Some(<<"eggs">>)},
   promo_price : {None, Some(0), Some(5)},
   regular_price : {Some(9)},
   stock_level : {Some(<<"l", "o", "w">>)},
   upc : {Some(<<"4", "2">>)},
   discount_percent : {None, Some(10), Some(20)}]

RECURSIVE StoresUpTo(_, _)
StoresUpTo(U, n) ==
  IF n = 0 THEN {{}}
  ELSE LET S == StoresUpTo(U, n - 1) IN S \cup {s \cup {r} : s \in S, r \in U}

Stores == StoresUpTo(RowUniverse, MaxRows)

\* JSON bodies of POST /sales: each key absent (None) or present.
Bodies ==
  [category : {None, Some(CategoryValue.Office_School_Crafts),
               Some(CategoryValue.Valentines_Day), Some(Bogus)},
   description : {None, Some(<<>>), Some(<<"milk">>), Some(<<"the">>)},
   on_sale : {None, Some(TRUE), Some(FALSE)},
   stock_level : {None}]

SaleRow ==
  [category |-> Some(CategoryValue.Dairy), description |-> Some(<<"milk">>),
   promo_price |-> Some(5), regular_price |-> Some(9),
   stock_level |-> Some(<<"l", "o", "w">>), upc |-> Some(<<"1">>),
   discount_percent |-> Some(20)]

PlainRow ==
  [category |-> Some(CategoryValue.Dairy), description |-> Some(<<"eggs">>),
   promo_price |-> None, regular_price |-> Some(9),
   stock_level |-> None, upc |-> Some(<<"2">>),
   discount_percent |-> Some(10)]

\* A row the Item model cannot hold: its description is NULL.
UndescribedRow ==
  [category |-> Some(CategoryValue.Dairy), description |-> None,
   promo_price |-> None, regular_price |-> None,
   stock_level |-> None, upc |-> Some(<<"3">>),
   discount_percent |-> Some(10)]

ConcStores == {{}, {SaleRow, PlainRow}, {SaleRow, UndescribedRow}}

ConcBodies ==
  [category : {None},
   description : {None},
   on_sale : {None, Some(TRUE), Some(FALSE)},
   stock_level : {None, Some(Bogus)}]
    \cup [category : {Some(CategoryValue.Valentines_Day)},
          description : {None},
          on_sale : {None},
          stock_level : {None}]

(* ------------------------------------------------------ ItemSearchRequest *)

\* Variant: the flag defaulting to false.
DefaultOnSaleOff == FALSE

\* on_sale: bool = True
DefaultOnSale == TRUE

\* The body decodes when its category, if given, is a value of Category.  A
\* key the model does not declare (stock_level) is not looked at.
ValidBody(b) == IsNone(b.category) \/ CategoryByValue(Get(b.category)) # {}

ParseRequest(b) ==
  [category |-> IF IsNone(b.category) THEN None
                ELSE Some(CHOOSE m \in CategoryByValue(Get(b.category)) : TRUE),
   description |-> b.description,
   on_sale |-> IF IsNone(b.on_sale) THEN DefaultOnSale ELSE Get(b.on_sale)]

NoData == [category |-> None, description |-> None, on_sale |-> FALSE]

(* ----------------------------------------------------- query construction *)

SelectSql ==
  "SELECT category, description, promo_price, regular_price, stock_level, upc, discount_percent FROM public.items_view"

SaleSql == "promo_price > 0"

CategoryEqSql == "category = "

FtsSql ==
  "to_tsvector('english', description) @@ plainto_tsquery('english', :description)"

AndSql == " AND "

WhereSql == " WHERE "

OrderLimitSql == " ORDER BY discount_percent DESC LIMIT 100"

\* if data.category: a str-valued enum member is truthy when its value is
\* not empty.
CategoryGiven(d) ==
  ~IsNone(d.category) /\ Len(CategoryValue[Get(d.category)]) > 0

\* f"category = '{data.category.value}'"
CategoryCondition(d) ==
  <<CategoryEqSql, "'">> \o CategoryValue[Get(d.category)] \o <<"'">>

\* Variant: the sale condition never appended.
ConditionsNoSale(d) ==
  (IF CategoryGiven(d) THEN <<CategoryCondition(d)>> ELSE <<>>)
    \o (IF Truthy(d.description) THEN << <<FtsSql>> >> ELSE <<>>)

\* The list `conditions`, each element the text of one condition.
Conditions(d) ==
  (IF d.on_sale THEN << <<SaleSql>> >> ELSE <<>>)
    \o (IF CategoryGiven(d) THEN <<CategoryCondition(d)>> ELSE <<>>)
    \o (IF Truthy(d.description) THEN << <<FtsSql>> >> ELSE <<>>)

\* " AND ".join(conditions)
RECURSIVE Join(_)
Join(cs) ==
  IF Len(cs) = 0 THEN <<>>
  ELSE IF Len(cs) = 1 THEN cs[1]
  ELSE cs[1] \o <<AndSql>> \o Join(Tail(cs))

\* The text handed to session.execute and its bound parameters.
BuildQuery(d) ==
  LET where_clause == Join(Conditions(d)) IN
    [text |-> <<SelectSql>>
                \o (IF Len(where_clause) > 0 THEN <<WhereSql>> \o where_clause
                    ELSE <<>>)
                \o <<OrderLimitSql>>,
     params |-> [description |-> d.description]]

NoQuery == [text |-> <<>>, params |-> [description |-> None]]

(* ------------------------------------------- the store reading the query *)

Malformed == [ok |-> FALSE, sale |-> FALSE, cats |-> <<>>, fts |-> FALSE]

NoConditions == [ok |-> TRUE, sale |-> FALSE, cats |-> <<>>, fts |-> FALSE]

\* A string literal, read from the character after its opening quote: it
\* ends at the next quote that is not doubled.
RECURSIVE ScanLiteral(_, _, _)
ScanLiteral(q, i, acc) ==
  IF i > Len(q) THEN [closed |-> FALSE, next |-> i, value |-> acc]
  ELSE IF q[i] = "'"
    THEN IF i + 1 <= Len(q) /\ q[i + 1] = "'"
           THEN ScanLiteral(q, i + 2, Append(acc, "'"))
           ELSE [closed |-> TRUE, next |-> i + 1, value |-> acc]
    ELSE ScanLiteral(q, i + 1, Append(acc, q[i]))

RECURSIVE ParseCond(_, _, _), ParseSep(_, _, _)
\* After a condition: AND and another condition, or the ORDER BY tail.
ParseSep(q, i, acc) ==
  IF i > Len(q) THEN Malformed
  ELSE IF q[i] = OrderLimitSql THEN (IF i = Len(q) THEN acc ELSE Malformed)
  ELSE IF q[i] = AndSql THEN ParseCond(q, i + 1, acc)
  ELSE Malformed

ParseCond(q, i, acc) ==
  IF i > Len(q) THEN Malformed
  ELSE IF q[i] = SaleSql THEN ParseSep(q, i + 1, [acc EXCEPT !.sale = TRUE])
  ELSE IF q[i] = FtsSql THEN ParseSep(q, i + 1, [acc EXCEPT !.fts = TRUE])
  ELSE IF q[i] = CategoryEqSql /\ i + 1 <= Len(q) /\ q[i + 1] = "'"
    THEN LET lit == ScanLiteral(q, i + 2, <<>>) IN
           IF lit.closed
             THEN ParseSep(q, lit.next,
                           [acc EXCEPT !.cats = Append(@, lit.value)])
             ELSE Malformed
    ELSE Malformed

\* PostgreSQL's reading of the query text: the conditions of its WHERE
\* clause, or a syntax error.
ParseSql(q) ==
  IF Len(q) < 2 \/ q[1] # SelectSql THEN Malformed
  ELSE IF q[2] = WhereSql THEN ParseCond(q, 3, NoConditions)
  ELSE IF q[2] = OrderLimitSql /\ Len(q) = 2 THEN NoConditions
  ELSE Malformed

\* promo_price > 0: NULL > 0 is NULL, which selects nothing.
SqlGtZero(p) == ~IsNone(p) /\ Get(p) > 0

\* category = '...': NULL = x is NULL.
SqlEq(col, lit) == ~IsNone(col) /\ Get(col) = lit

\* The 'english' configuration drops stop words.
StopWords == {"the"}

Lexemes(text) == Seq2Set(text) \ StopWords

\* to_tsvector(doc) @@ plainto_tsquery(term): every lexeme of the term is
\* in the document; a term with no lexeme matches nothing.
TsMatch(doc, term) ==
  /\ ~IsNone(doc)
  /\ ~IsNone(term)
  /\ Lexemes(Get(term)) # {}
  /\ Lexemes(Get(term)) \subseteq Lexemes(Get(doc))

Selected(row, p, params) ==
  /\ p.sale => SqlGtZero(row.promo_price)
  /\ \A i \in 1..Len(p.cats) : SqlEq(row.category, p.cats[i])
  /\ p.fts => TsMatch(row.description, params.description)

\* ORDER BY discount_percent DESC: greater first and, PostgreSQL's default
\* for DESC, NULLs before every value.  Rows that tie come in any order.
SortsBefore(a, b) ==
  \/ IsNone(a.discount_percent) /\ ~IsNone(b.discount_percent)
  \/ /\ ~IsNone(a.discount_percent)
     /\ ~IsNone(b.discount_percent)
     /\ Get(a.discount_percent) > Get(b.discount_percent)

RECURSIVE Perms(_)
Perms(S) ==
  IF S = {} THEN {<<>>}
  ELSE UNION {{<<x>> \o p : p \in Perms(S \ {x})} : x \in S}

Orderings(S) ==
  {p \in Perms(S) :
     \A i \in 1..Len(p) : \A j \in 1..Len(p) :
        i < j => ~SortsBefore(p[j], p[i])}

\* The select list, in the order the handler indexes a fetched tuple.
SelectList(row) ==
  <<row.category, row.description, row.promo_price, row.regular_price,
    row.stock_level, row.upc, row.discount_percent>>

\* What result.fetchall() may return for a well-formed query.
QueryResults(st, q) ==
  LET p == ParseSql(q.text)
      M == {row \in st : Selected(row, p, q.params)}
  IN {[i \in 1..Min(RowLimit, Len(o)) |-> SelectList(o[i])] : o \in Orderings(M)}

(* ------------------------------------------------------------ row mapping *)

\* float(x) if x is not None else None.  The store's numerics are modelled
\* in hundredths, which a double holds exactly.
FloatOf(x) == IF IsNone(x) THEN None ELSE Some(Get(x))

ItemDict(item) ==
  [category |-> item[1],
   description |-> item[2],
   promo_price |-> FloatOf(item[3]),
   regular_price |-> FloatOf(item[4]),
   stock_level |-> item[5],
   upc |-> item[6],
   discount_percent |-> FloatOf(item[7])]

\* Item(**item_dict): category, description and upc are required str.
ItemValid(d) == ~IsNone(d.category) /\ ~IsNone(d.description) /\ ~IsNone(d.upc)

(* ------------------------------------------------------------------ state *)

VARIABLES
  store,     \* the rows of public.items_view
  body,      \* per request: the JSON body sent, None when no request is sent
  pc,        \* per request: where its handling stands
  data,      \* per request: the decoded ItemSearchRequest
  session,   \* per request: its AsyncSession: "none", "open", "closed"
  closes,    \* per request: calls of close() on its session
  query,     \* per request: the query handed to session.execute
  execs,     \* per request: calls of session.execute
  dberror,   \* per request: what execute raised: "none", "syntax", "connection"
  fetched,   \* per request: the tuples fetchall() returned
  items,     \* per request: the items of its ItemSearchResponse
  outcome    \* per request: "none", "ok", "rejected", "error"

vars ==
  <<store, body, pc, data, session, closes, query, execs, dberror, fetched,
    items, outcome>>

InitRequests ==
  /\ pc = [r \in Reqs |-> "idle"]
  /\ data = [r \in Reqs |-> NoData]
  /\ session = [r \in Reqs |-> "none"]
  /\ closes = [r \in Reqs |-> 0]
  /\ query = [r \in Reqs |-> NoQuery]
  /\ execs = [r \in Reqs |-> 0]
  /\ dberror = [r \in Reqs |-> "none"]
  /\ fetched = [r \in Reqs |-> <<>>]
  /\ items = [r \in Reqs |-> <<>>]
  /\ outcome = [r \in Reqs |-> "none"]

\* One request, any store of up to MaxRows rows, any body.
Init ==
  /\ store \in Stores
  /\ body \in {[r \in Reqs |-> IF r = 1 THEN Some(b) ELSE None] : b \in Bodies}
  /\ InitRequests

\* NumReq requests in flight over one store.
InitConc ==
  /\ store \in ConcStores
  /\ body \in [Reqs -> {Some(b) : b \in ConcBodies}]
  /\ InitRequests

(* ---------------------------------------------------------------- actions *)

\* The framework decodes the body into data: ItemSearchRequest, or answers
\* with a validation error without calling the handler.
Validate(r) ==
  /\ pc[r] = "idle"
  /\ ~IsNone(body[r])
  /\ IF ValidBody(Get(body[r]))
       THEN /\ data' = [data EXCEPT ![r] = ParseRequest(Get(body[r]))]
            /\ pc' = [pc EXCEPT ![r] = "validated"]
            /\ UNCHANGED outcome
       ELSE /\ pc' = [pc EXCEPT ![r] = "done"]
            /\ outcome' = [outcome EXCEPT ![r] = "rejected"]
            /\ UNCHANGED data
  /\ UNCHANGED <<store, body, session, closes, query, execs, dberror, fetched,
                 items>>

\* get_db_session up to its yield: db = SessionLocal().
GetDbSession(r) ==
  /\ pc[r] = "validated"
  /\ session' = [session EXCEPT ![r] = "open"]
  /\ pc' = [pc EXCEPT ![r] = "handler"]
  /\ UNCHANGED <<store, body, data, closes, query, execs, dberror, fetched,
                 items, outcome>>

\* search from its entry to the await of session.execute.
SearchBuild(r) ==
  /\ pc[r] = "handler"
  /\ query' = [query EXCEPT ![r] = BuildQuery(data[r])]
  /\ execs' = [execs EXCEPT ![r] = @ + 1]
  /\ pc' = [pc EXCEPT ![r] = "executing"]
  /\ UNCHANGED <<store, body, data, session, closes, dberror, fetched, items,
                 outcome>>

\* Variant: a query that removes the rows it returns.
ExecuteOkConsuming(r) ==
  /\ pc[r] = "executing"
  /\ ParseSql(query[r].text).ok
  /\ \E res \in QueryResults(store, query[r]) :
       /\ fetched' = [fetched EXCEPT ![r] = res]
       /\ store' = {row \in store : \A i \in 1..Len(res) : res[i] # SelectList(row)}
  /\ pc' = [pc EXCEPT ![r] = "fetched"]
  /\ UNCHANGED <<body, data, session, closes, query, execs, dberror, items,
                 outcome>>

\* session.execute and result.fetchall() succeed: the store answers a
\* well-formed query with one of its possible results.
ExecuteOk(r) ==
  /\ pc[r] = "executing"
  /\ ParseSql(query[r].text).ok
  /\ \E res \in QueryResults(store, query[r]) :
       fetched' = [fetched EXCEPT ![r] = res]
  /\ pc' = [pc EXCEPT ![r] = "fetched"]
  /\ UNCHANGED <<store, body, data, session, closes, query, execs, dberror,
                 items, outcome>>

\* Variant: the exception caught and taken for an empty result.
ExecuteFailSwallowed(r) ==
  /\ pc[r] = "executing"
  /\ \/ ~ParseSql(query[r].text).ok /\ dberror' = [dberror EXCEPT ![r] = "syntax"]
     \/ dberror' = [dberror EXCEPT ![r] = "connection"]
  /\ pc' = [pc EXCEPT ![r] = "fetched"]
  /\ UNCHANGED <<store, body, data, session, closes, query, execs, fetched,
                 items, outcome>>

\* session.execute raises: the store rejects a malformed query, or the
\* connection is lost.  Nothing in search catches it.
ExecuteFail(r) ==
  /\ pc[r] = "executing"
  /\ \/ ~ParseSql(query[r].text).ok /\ dberror' = [dberror EXCEPT ![r] = "syntax"]
     \/ dberror' = [dberror EXCEPT ![r] = "connection"]
  /\ pc' = [pc EXCEPT ![r] = "raising"]
  /\ UNCHANGED <<store, body, data, session, closes, query, execs, fetched,
                 items, outcome>>

\* The fetched tuples become dicts and then Items; an Item that cannot be
\* built raises.
MapRows(r) ==
  /\ pc[r] = "fetched"
  /\ LET items_dicts == [i \in 1..Len(fetched[r]) |-> ItemDict(fetched[r][i])] IN
       IF \A i \in 1..Len(items_dicts) : ItemValid(items_dicts[i])
         THEN /\ items' = [items EXCEPT ![r] = items_dicts]
              /\ pc' = [pc EXCEPT ![r] = "returning"]
         ELSE /\ pc' = [pc EXCEPT ![r] = "raising"]
              /\ UNCHANGED items
  /\ UNCHANGED <<store, body, data, session, closes, query, execs, dberror,
                 fetched, outcome>>

\* Variant: a handler that uses db without `async with`.
SessionExitNoClose(r) ==
  /\ pc[r] \in {"returning", "raising"}
  /\ pc' = [pc EXCEPT ![r] = IF pc[r] = "returning" THEN "returned" ELSE "raised"]
  /\ UNCHANGED <<store, body, data, session, closes, query, execs, dberror,
                 fetched, items, outcome>>

\* Leaving `async with db as session`, by return or by exception:
\* AsyncSession.__aexit__ closes the session.
SessionExit(r) ==
  /\ pc[r] \in {"returning", "raising"}
  /\ session' = [session EXCEPT ![r] = "closed"]
  /\ closes' = [closes EXCEPT ![r] = @ + 1]
  /\ pc' = [pc EXCEPT ![r] = IF pc[r] = "returning" THEN "returned" ELSE "raised"]
  /\ UNCHANGED <<store, body, data, query, execs, dberror, fetched, items,
                 outcome>>

\* get_db_session resumed after the handler: finally: await db.close().  The
\* framework then sends the response, or its 500 for the exception.
ProviderFinally(r) ==
  /\ pc[r] \in {"returned", "raised"}
  /\ session' = [session EXCEPT ![r] = "closed"]
  /\ closes' = [closes EXCEPT ![r] = @ + 1]
  /\ outcome' = [outcome EXCEPT ![r] = IF pc[r] = "returned" THEN "ok" ELSE "error"]
  /\ pc' = [pc EXCEPT ![r] = "done"]
  /\ UNCHANGED <<store, body, data, query, execs, dberror, fetched, items>>

Next ==
  \E r \in Reqs :
    \/ Validate(r)
    \/ GetDbSession(r)
    \/ SearchBuild(r)
    \/ ExecuteOk(r)
    \/ ExecuteFail(r)
    \/ MapRows(r)
    \/ SessionExit(r)
    \/ ProviderFinally(r)

Spec == Init /\ [][Next]_vars

SpecConc == InitConc /\ [][Next]_vars

(* ----------------------------------------------------------------- claims *)

\* The rows a request asks for, with the sale flag taken as `flag`: all its
\* active filters together.
MatchSet(st, b, flag) ==
  {row \in st :
     /\ flag => (~IsNone(row.promo_price) /\ Get(row.promo_price) > 0)
     /\ ~IsNone(b.category) => row.category = b.category
     /\ Truthy(b.description) => TsMatch(row.description, b.description)}

\* The sale flag of a body, an omitted flag counting as true.
FlagOf(b) == IF IsNone(b.on_sale) THEN TRUE ELSE Get(b.on_sale)

\* The item sequences that answer a request: its rows, unchanged, in an
\* order the store may give them, cut at the row cap.
Answers(st, b, flag) ==
  {SubSeq(o, 1, Min(RowLimit, Len(o))) : o \in Orderings(MatchSet(st, b, flag))}

Done(r) == pc[r] = "done"

\* The handler ran and the connection to the store held.
Served(r) == Done(r) /\ outcome[r] # "rejected" /\ dberror[r] # "connection"

\* C1: with on_sale true, whatever the other filters, every item of the
\* response has a promotional price that is set and strictly positive.
C1_SaleItemsOnly ==
  \A r \in Reqs :
    (outcome[r] = "ok" /\ Get(body[r]).on_sale = Some(TRUE)) =>
      \A i \in 1..Len(items[r]) :
        /\ ~IsNone(items[r][i].promo_price)
        /\ Get(items[r][i].promo_price) > 0

\* C1's case: a sale search with a category filter answered with an item
\* while the store also holds a row of that category that is not on sale.
C1_Witness ==
  \E r \in Reqs :
    /\ outcome[r] = "ok"
    /\ Get(body[r]).on_sale = Some(TRUE)
    /\ ~IsNone(Get(body[r]).category)
    /\ Len(items[r]) = 1
    /\ \E row \in store :
         /\ row.category = Get(body[r]).category
         /\ row.promo_price \in {None, Some(0)}

DiscountBelow(a, b) ==
  \/ IsNone(a) /\ ~IsNone(b)
  \/ ~IsNone(a) /\ ~IsNone(b) /\ Get(a) < Get(b)

\* C3 as claimed: the discount percentage never increases from an item of
\* the response to the next, rows without one included.
C3_NonIncreasingDiscount ==
  \A r \in Reqs :
    outcome[r] = "ok" =>
      \A i \in 1..(Len(items[r]) - 1) :
        ~DiscountBelow(items[r][i].discount_percent,
                       items[r][i + 1].discount_percent)

\* The enumerated stock levels.
StockLevels == {<<"h", "i", "g", "h">>, <<"l", "o", "w">>}

\* C4 as claimed: a request whose stock-level filter is outside the
\* enumerated set is rejected: no query is run and no items are returned
\* (stated for the requests that lose no connection).
C4_BadStockLevelRejected ==
  \A r \in Reqs :
    (/\ Done(r)
     /\ dberror[r] # "connection"
     /\ ~IsNone(Get(body[r]).stock_level)
     /\ Get(Get(body[r]).stock_level) \notin StockLevels) =>
      /\ outcome[r] = "rejected"
      /\ execs[r] = 0
      /\ items[r] = <<>>

\* C5 as claimed: when no row matches the active filters the search
\* succeeds with an empty item sequence.
C5_EmptyResultIsNoError ==
  \A r \in Reqs :
    (Served(r) /\ MatchSet(store, Get(body[r]), FlagOf(Get(body[r]))) = {}) =>
      /\ outcome[r] = "ok"
      /\ items[r] = <<>>

C7_StoreUntouched ==
  [][/\ store' = store
     /\ \A r \in Reqs :
          outcome'[r] = "ok" =>
            items'[r] \in Answers(store', Get(body'[r]), FlagOf(Get(body'[r])))]_vars

\* C7's case: two requests over a store with rows have ended, one with
\* items and one with an error.
C7_Witness ==
  \E r1 \in Reqs : \E r2 \in Reqs :
    /\ Done(r1) /\ outcome[r1] = "ok" /\ Len(items[r1]) = 2
    /\ Done(r2) /\ outcome[r2] = "error"

\* C8: a failed execution ends the request with an error, never with a
\* response, and the query is executed at most once.
C8_ExecuteFailurePropagates ==
  \A r \in Reqs :
    /\ execs[r] <= 1
    /\ dberror[r] # "none" =>
         /\ outcome[r] \in {"none", "error"}
         /\ items[r] = <<>>
         /\ Done(r) => outcome[r] = "error"

\* C8's case: the connection was lost under a query that rows of the store
\* match, and the request has ended.
C8_Witness ==
  \E r \in Reqs :
    /\ Done(r)
    /\ dberror[r] = "connection"
    /\ outcome[r] = "error"
    /\ MatchSet(store, Get(body[r]), FlagOf(Get(body[r]))) # {}

\* A discount strictly above another, both being set.
DiscountAbove(a, b) == ~IsNone(a) /\ ~IsNone(b) /\ Get(a) > Get(b)

\* C9 as claimed: the response holds min(100, |M|) items, each a row of M
\* unchanged, and no row of M left out has a greater discount than one
\* included.
C9_ExactlyTheMatchingRows ==
  \A r \in Reqs :
    Served(r) =>
      LET M == MatchSet(store, Get(body[r]), FlagOf(Get(body[r]))) IN
        /\ Len(items[r]) = Min(RowLimit, Cardinality(M))
        /\ \A i \in 1..Len(items[r]) : items[r][i] \in M
        /\ \A i \in 1..Len(items[r]) : \A j \in 1..Len(items[r]) :
             i # j => items[r][i] # items[r][j]
        /\ \A row \in M \ Seq2Set(items[r]) :
             \A i \in 1..Len(items[r]) :
               ~DiscountAbove(row.discount_percent, items[r][i].discount_percent)

\* The same body with on_sale given as true.
ExplicitlyOnSale(b) == [b EXCEPT !.on_sale = Some(TRUE)]

\* C10: a request that omits on_sale runs the query of the same request
\* with on_sale true and is answered as that one is; an item without a
\* positive promotional price is returned only to on_sale false.
C10_OmittedMeansOnSale ==
  /\ \A r \in Reqs :
       outcome[r] = "ok" =>
         /\ IsNone(Get(body[r]).on_sale) =>
              items[r] \in Answers(store, Get(body[r]), TRUE)
         /\ (\E i \in 1..Len(items[r]) :
               \/ IsNone(items[r][i].promo_price)
               \/ Get(items[r][i].promo_price) <= 0)
              => Get(body[r]).on_sale = Some(FALSE)
  /\ \A r1 \in Reqs : \A r2 \in Reqs :
       (/\ IsNone(Get(body[r1]).on_sale)
        /\ Get(body[r2]) = ExplicitlyOnSale(Get(body[r1]))
        /\ execs[r1] = 1
        /\ execs[r2] = 1) => query[r1] = query[r2]

\* C10's case: over a store holding a row that is not on sale, a request
\* without on_sale and the same request with on_sale true got the same
\* items.
C10_Witness ==
  \E r1 \in Reqs : \E r2 \in Reqs :
    /\ IsNone(Get(body[r1]).on_sale)
    /\ Get(body[r2]) = ExplicitlyOnSale(Get(body[r1]))
    /\ outcome[r1] = "ok"
    /\ outcome[r2] = "ok"
    /\ items[r1] = items[r2]
    /\ Len(items[r1]) = 1
    /\ PlainRow \in store

====
